---------------------------- MODULE Spec2Model ----------------------------
(***************************************************************************)
(* Model of the Crossbeam bridge program, src/contracts/rust/bridge.rs.    *)
(*                                                                         *)
(* The program is one entrypoint, process_instruction, that the host calls *)
(* once per instruction, one instruction at a time.  It decodes the        *)
(* instruction bytes (BridgeInstruction::unpack) and dispatches to         *)
(* lock_tokens or unlock_tokens.  Both handlers take three accounts,       *)
(* require account 0 to be a signer, log a message and return Ok(()); the  *)
(* transfer, the lock record and the processed-hash bookkeeping appear in  *)
(* the source only as comments ("In a real implementation: ...").          *)
(*                                                                         *)
(* The vault ledger (locked_balance, processed_tx_hashes) is the data that *)
(* lives behind the vault account.  The handlers bind vault_account and    *)
(* never write through it, so the model's handlers return the vault they   *)
(* were given.                                                             *)
(***************************************************************************)
EXTENDS Integers, Sequences, FiniteSets

\* ------------------------------------------------------------------ bounds

\* Instructions the host delivers in one behaviour.
MaxInstr == 2

\* Largest amount carried by a generated instruction.
MaxAmount == 2

\* Number of distinct source transaction hashes in generated instructions.
NumHashes == 2

\* ------------------------------------------------------- program constants

\* Bytes of the amount field (u64).
AmountLen == 8

\* Bytes of source_tx_hash ([u8; 32]).
HashLen == 32

\* Bytes an UnlockTokens payload needs after the tag (8 + 32).
UnlockLen == 40

\* Accounts each handler takes with next_account_info.
NumAccounts == 3

\* --------------------------------------------------------------- outcomes

\* ProgramResult values the source produces.
Ok == "Ok"
InvalidInstructionData == "InvalidInstructionData"
NotEnoughAccountKeys == "NotEnoughAccountKeys"
MissingRequiredSignature == "MissingRequiredSignature"

\* Before the first instruction there is no outcome.
NoResult == "None"

Failures == {InvalidInstructionData, NotEnoughAccountKeys, MissingRequiredSignature}

Outcomes == {Ok} \cup Failures

\* ------------------------------------------------------------------ bytes

Byte == 0..255

Amounts == 0..MaxAmount

Hashes == 1..NumHashes

\* Mutant of from_le_bytes: only the two lowest bytes are read, as for a u16.
from_le_bytes_u16(b) ==
    IF Len(b) < 2 THEN 0 ELSE b[1] + 256 * b[2]

RECURSIVE from_le_bytes(_)
\* u64::from_le_bytes: the first byte is the least significant.
from_le_bytes(b) ==
    IF b = <<>> THEN 0 ELSE Head(b) + 256 * from_le_bytes(Tail(b))

RECURSIVE LeBytes(_, _)
\* The n-byte little-endian encoding of v (builds input buffers).
LeBytes(v, n) ==
    IF n = 0 THEN <<>> ELSE <<v % 256>> \o LeBytes(v \div 256, n - 1)

\* The 32 bytes of generated hash h: every position holds a different byte.
HashBytes(h) == [i \in 1..HashLen |-> (h * 64 + i) % 256]

HashValues == {HashBytes(h) : h \in Hashes}

\* The generated hash whose bytes are b.
HashOf(b) == CHOOSE h \in Hashes : HashBytes(h) = b

IsCont(x) == x >= 128 /\ x <= 191

RECURSIVE from_utf8_ok(_)
\* String::from_utf8 succeeds exactly on well-formed UTF-8.
from_utf8_ok(b) ==
    IF b = <<>> THEN TRUE
    ELSE LET n == Len(b)
             b1 == b[1]
             rest(k) == SubSeq(b, k + 1, n)
         IN  IF b1 <= 127 THEN from_utf8_ok(rest(1))
             ELSE IF b1 >= 194 /\ b1 <= 223
                  THEN n >= 2 /\ IsCont(b[2]) /\ from_utf8_ok(rest(2))
             ELSE IF b1 >= 224 /\ b1 <= 239
                  THEN /\ n >= 3
                       /\ IsCont(b[2]) /\ IsCont(b[3])
                       /\ (b1 = 224 => b[2] >= 160)
                       /\ (b1 = 237 => b[2] <= 159)
                       /\ from_utf8_ok(rest(3))
             ELSE IF b1 >= 240 /\ b1 <= 244
                  THEN /\ n >= 4
                       /\ IsCont(b[2]) /\ IsCont(b[3]) /\ IsCont(b[4])
                       /\ (b1 = 240 => b[2] >= 144)
                       /\ (b1 = 244 => b[2] <= 143)
                       /\ from_utf8_ok(rest(4))
             ELSE FALSE

\* ------------------------------------------------------------------ codec

LockTokens == "LockTokens"
UnlockTokens == "UnlockTokens"

DecodeErr(e) ==
    [ok |-> FALSE, err |-> e, tag |-> "", amount |-> 0,
     target_chain |-> <<>>, source_tx_hash |-> <<>>]

\* What a failed bounds check or a failed unwrap() leaves instead of a value.
Panic == "panic"

\* s[lo..hi] is within bounds when lo <= hi <= s.len().
SliceOk(s, lo, hi) == lo <= hi /\ hi <= Len(s)

\* s[lo..hi], bytes lo (counted from 0) up to hi, hi excluded.
Slice(s, lo, hi) == SubSeq(s, lo + 1, hi)

\* try_into::<[u8; n]>() succeeds on a slice of exactly n bytes.
TryIntoOk(s, n) == Len(s) = n

\* Mutant of variant_of: the catch-all arm is missing, every tag other than 0
\* is taken for UnlockTokens.
variant_of_no_catch_all(tag) ==
    IF tag = 0 THEN LockTokens ELSE UnlockTokens

\* The match on the tag byte: 0 is LockTokens, 1 is UnlockTokens, anything
\* else is no variant.
variant_of(tag) ==
    IF tag = 0 THEN LockTokens ELSE IF tag = 1 THEN UnlockTokens ELSE ""

\* Mutant of lock_too_short: the bound is one too small, a payload of 7 bytes
\* passes.
lock_too_short_by_one(rest) == Len(rest) < AmountLen - 1

\* rest.len() < 8: a LockTokens payload too short for its amount.
lock_too_short(rest) == Len(rest) < AmountLen

\* Mutant of unlock_too_short: the payload must be exactly 40 bytes, bytes
\* after the hash are refused.
unlock_too_short_exact(rest) == Len(rest) # UnlockLen

\* Mutant of unlock_too_short: <= for <, a payload of exactly 40 bytes is
\* refused.
unlock_too_short_inclusive(rest) == Len(rest) <= UnlockLen

\* rest.len() < 40: an UnlockTokens payload too short for amount and hash.
unlock_too_short(rest) == Len(rest) < UnlockLen

\* Mutant of target_chain_bytes: the slice starts one byte late, rest[9..].
target_chain_bytes_late(rest) == Slice(rest, AmountLen + 1, Len(rest))

\* rest[8..]: the bytes of target_chain.
target_chain_bytes(rest) == Slice(rest, AmountLen, Len(rest))

\* rest[8..40]: the bytes of source_tx_hash.
source_tx_hash_bytes(rest) == Slice(rest, AmountLen, UnlockLen)

\* BridgeInstruction::unpack.
unpack(input) ==
    IF input = <<>> THEN DecodeErr(InvalidInstructionData)
    ELSE LET tag == Head(input)
             rest == Tail(input)
         IN  IF variant_of(tag) = LockTokens
             THEN IF lock_too_short(rest)
                  THEN DecodeErr(InvalidInstructionData)
                  ELSE IF \/ ~SliceOk(rest, 0, AmountLen)
                          \/ ~TryIntoOk(Slice(rest, 0, AmountLen), AmountLen)
                          \/ ~SliceOk(rest, AmountLen, Len(rest))
                  THEN DecodeErr(Panic)
                  ELSE IF ~from_utf8_ok(target_chain_bytes(rest))
                  THEN DecodeErr(InvalidInstructionData)
                  ELSE [ok |-> TRUE, err |-> "", tag |-> LockTokens,
                        amount |-> from_le_bytes(Slice(rest, 0, AmountLen)),
                        target_chain |-> target_chain_bytes(rest),
                        source_tx_hash |-> <<>>]
             ELSE IF variant_of(tag) = UnlockTokens
             THEN IF unlock_too_short(rest)
                  THEN DecodeErr(InvalidInstructionData)
                  ELSE IF \/ ~SliceOk(rest, 0, AmountLen)
                          \/ ~TryIntoOk(Slice(rest, 0, AmountLen), AmountLen)
                          \/ ~SliceOk(rest, AmountLen, UnlockLen)
                          \/ ~TryIntoOk(source_tx_hash_bytes(rest), HashLen)
                  THEN DecodeErr(Panic)
                  ELSE [ok |-> TRUE, err |-> "", tag |-> UnlockTokens,
                        amount |-> from_le_bytes(Slice(rest, 0, AmountLen)),
                        target_chain |-> <<>>,
                        source_tx_hash |-> source_tx_hash_bytes(rest)]
             ELSE DecodeErr(InvalidInstructionData)

\* --------------------------------------------------------------- handlers

\* A handler's effect: its ProgramResult and the vault data it leaves.
Effect(r, v) == [result |-> r, vault |-> v]

\* Mutant of lock_tokens: account 0 is taken and checked for its signature
\* before the other two accounts are taken.
lock_tokens_signer_first(program_id, accts, amount, target_chain, vault) ==
    IF Len(accts) < 1 THEN Effect(NotEnoughAccountKeys, vault)
    ELSE IF ~accts[1].is_signer THEN Effect(MissingRequiredSignature, vault)
    ELSE IF Len(accts) < NumAccounts THEN Effect(NotEnoughAccountKeys, vault)
    ELSE Effect(Ok, vault)

\* Mutant of lock_tokens: the lock is recorded before the signer check, so a
\* lock refused for its missing signature has already grown the balance.
lock_tokens_records_first(program_id, accts, amount, target_chain, vault) ==
    LET recorded == [vault EXCEPT !.locked_balance = @ + amount]
    IN  IF Len(accts) < NumAccounts THEN Effect(NotEnoughAccountKeys, vault)
        ELSE IF ~accts[1].is_signer
        THEN Effect(MissingRequiredSignature, recorded)
        ELSE Effect(Ok, recorded)

\* lock_tokens: three accounts, account 0 a signer, then Ok(()).
lock_tokens(program_id, accts, amount, target_chain, vault) ==
    IF Len(accts) < NumAccounts THEN Effect(NotEnoughAccountKeys, vault)
    ELSE IF ~accts[1].is_signer THEN Effect(MissingRequiredSignature, vault)
    ELSE Effect(Ok, vault)

\* Mutant of unlock_tokens: the handler refuses to run under an id other than
\* the bridge's own.
unlock_tokens_checks_program(program_id, accts, amount, source_tx_hash, vault) ==
    IF Len(accts) < NumAccounts THEN Effect(NotEnoughAccountKeys, vault)
    ELSE IF ~accts[1].is_signer THEN Effect(MissingRequiredSignature, vault)
    ELSE IF program_id # "bridge" THEN Effect("IncorrectProgramId", vault)
    ELSE Effect(Ok, vault)

\* Mutant of unlock_tokens: the signer check is left out.
unlock_tokens_unsigned(program_id, accts, amount, source_tx_hash, vault) ==
    IF Len(accts) < NumAccounts THEN Effect(NotEnoughAccountKeys, vault)
    ELSE Effect(Ok, vault)

\* unlock_tokens: three accounts, account 0 a signer, then Ok(()).
unlock_tokens(program_id, accts, amount, source_tx_hash, vault) ==
    IF Len(accts) < NumAccounts THEN Effect(NotEnoughAccountKeys, vault)
    ELSE IF ~accts[1].is_signer THEN Effect(MissingRequiredSignature, vault)
    ELSE Effect(Ok, vault)

\* Mutant of process_instruction: the accounts are counted before the
\* instruction data is decoded.
process_instruction_accounts_first(program_id, accts, data, vault) ==
    LET instruction == unpack(data)
    IN  IF Len(accts) < NumAccounts THEN Effect(NotEnoughAccountKeys, vault)
        ELSE IF ~instruction.ok THEN Effect(instruction.err, vault)
        ELSE IF ~accts[1].is_signer THEN Effect(MissingRequiredSignature, vault)
        ELSE Effect(Ok, vault)

\* process_instruction: decode, then dispatch on the variant.
process_instruction(program_id, accts, data, vault) ==
    LET instruction == unpack(data)
    IN  IF ~instruction.ok THEN Effect(instruction.err, vault)
        ELSE IF instruction.tag = LockTokens
        THEN lock_tokens(program_id, accts, instruction.amount,
                         instruction.target_chain, vault)
        ELSE unlock_tokens(program_id, accts, instruction.amount,
                           instruction.source_tx_hash, vault)

\* ------------------------------------------------------------------ state

VARIABLES
    program_id,           \* id the program ran under for the last instruction
    locked_balance,       \* vault data: the balance the ledger holds
    processed_tx_hashes,  \* vault data: hashes recorded as processed
    instruction_data,     \* bytes of the instruction last delivered
    instruction,          \* what unpack made of instruction_data
    accounts,             \* accounts of the instruction last delivered
    verify_ok,            \* whether proof verification accepts its (hash, amount)
    transfer_ok,          \* whether the token transfer it asks for can succeed
    result,               \* ProgramResult of the instruction last delivered
    total_locked,         \* history: sum of the amounts of successful locks
    total_unlocked,       \* history: sum of the amounts of successful unlocks
    unlock_count,         \* history: successful unlocks per generated hash
    n_processed           \* history: instructions delivered so far

vars == <<program_id, locked_balance, processed_tx_hashes, instruction_data,
          instruction, accounts,
          verify_ok, transfer_ok, result, total_locked, total_unlocked,
          unlock_count, n_processed>>

\* ----------------------------------------------------------------- inputs

\* The id the bridge program is deployed under, and another id.
BridgeProgram == "bridge"

ProgramIds == {BridgeProgram, "other"}

\* The identity the bridge is configured with as its authority.
BridgeAuthority == "authority"

Account(k, s) == [key |-> k, is_signer |-> s]

\* Account 0 as the host may present it.
Actors == {Account(k, s) : k \in {BridgeAuthority, "user"}, s \in BOOLEAN}

\* Account lists of every length 0..3; positions 1 and 2 are the vault and
\* the counterparty token account.
AccountLists ==
    {<<>>}
    \cup {<<Account("user", s)>> : s \in BOOLEAN}
    \cup {<<Account("user", s), Account("vault", FALSE)>> : s \in BOOLEAN}
    \cup {<<a, Account("vault", FALSE), Account("token", FALSE)>> : a \in Actors}

\* "eth"
Eth == <<101, 116, 104>>

LockBuffer(a, chain) == <<0>> \o LeBytes(a, AmountLen) \o chain

UnlockBuffer(a, h) == <<1>> \o LeBytes(a, AmountLen) \o HashBytes(h)

\* Instruction buffers the host may deliver: well-formed locks and unlocks,
\* and one buffer for each way decoding can fail or skip bytes.
Buffers ==
    {LockBuffer(a, Eth) : a \in Amounts}
    \cup {UnlockBuffer(a, h) : a \in Amounts, h \in Hashes}
    \cup { <<>>,
           <<2>> \o LeBytes(1, AmountLen),
           SubSeq(LockBuffer(1, Eth), 1, AmountLen),
           LockBuffer(1, <<>>),
           LockBuffer(1, <<255>>),
           SubSeq(UnlockBuffer(1, 1), 1, UnlockLen),
           UnlockBuffer(1, 1) \o <<7>> }

\* "polygon"
Polygon == <<112, 111, 108, 121, 103, 111, 110>>

\* Every prefix of buffer b, b included.
Prefixes(b) == {SubSeq(b, 1, n) : n \in 0..Len(b)}

\* Amounts whose little-endian bytes differ in more than the first byte.
DecodeAmounts == Amounts \cup {50, 258, 16909060}

\* Candidate target_chain bytes: empty, ASCII, a two-byte character, and
\* four ill-formed sequences.
Chains ==
    { <<>>, Eth, Polygon, <<195, 169>>,
      <<255>>, <<195>>, <<237, 160, 128>>, Eth \o <<128>> }

\* Buffers for the decoder alone: every truncation of a lock and of an unlock
\* with trailing bytes, locks over every chain, unlocks over every hash,
\* unlocks that differ only after the hash, and every tag byte 2..255.
DecodeBuffers ==
    Prefixes(LockBuffer(50, Polygon))
    \cup Prefixes(UnlockBuffer(258, 1) \o <<7, 9>>)
    \cup {LockBuffer(a, c) : a \in DecodeAmounts, c \in Chains}
    \cup {UnlockBuffer(a, h) : a \in DecodeAmounts, h \in Hashes}
    \cup {UnlockBuffer(1, h) \o t : h \in Hashes, t \in {<<7>>, <<8>>, Eth}}
    \cup {<<t>> \o LeBytes(1, AmountLen) : t \in 2..255}
    \cup {<<t>> \o Tail(UnlockBuffer(1, 1)) : t \in {2, 255}}

\* What the proof-verification collaborator may answer for instruction ins:
\* it is asked about unlocks only.
VerifyAnswers(ins) ==
    IF ins.tag = UnlockTokens THEN BOOLEAN ELSE {TRUE}

\* What the token-transfer capability may answer for instruction ins: a
\* transfer belongs to a decoded lock or unlock only.
TransferAnswers(ins) ==
    IF ins.ok THEN BOOLEAN ELSE {TRUE}

\* ------------------------------------------------------------ transitions

\* Before unpack has run there is no instruction.
NoInstruction == DecodeErr(NoResult)

Vault == [locked_balance |-> locked_balance,
          processed_tx_hashes |-> processed_tx_hashes]

Init ==
    /\ program_id = BridgeProgram
    /\ locked_balance = 0
    /\ processed_tx_hashes = {}
    /\ instruction_data = <<>>
    /\ instruction = NoInstruction
    /\ accounts = <<>>
    /\ verify_ok = TRUE
    /\ transfer_ok = TRUE
    /\ result = NoResult
    /\ total_locked = 0
    /\ total_unlocked = 0
    /\ unlock_count = [h \in Hashes |-> 0]
    /\ n_processed = 0

\* The host delivers one instruction to the program deployed under one of ids
\* and the entrypoint runs to completion.  With collaborators the answers
\* of the external collaborators vary; without, they are favourable.
Deliver(ids, collaborators) ==
    /\ n_processed < MaxInstr
    /\ \E id \in ids, data \in Buffers :
       \E ins \in {unpack(data)}, accts \in AccountLists :
       \E eff \in {process_instruction(id, accts, data, Vault)} :
       \E v \in (IF collaborators THEN VerifyAnswers(ins) ELSE {TRUE}),
          t \in (IF collaborators THEN TransferAnswers(ins) ELSE {TRUE}) :
        LET done == eff.result = Ok
        IN  /\ program_id' = id
            /\ instruction_data' = data
            /\ instruction' = ins
            /\ accounts' = accts
            /\ verify_ok' = v
            /\ transfer_ok' = t
            /\ result' = eff.result
            /\ locked_balance' = eff.vault.locked_balance
            /\ processed_tx_hashes' = eff.vault.processed_tx_hashes
            /\ total_locked' =
                 IF done /\ ins.tag = LockTokens
                 THEN total_locked + ins.amount ELSE total_locked
            /\ total_unlocked' =
                 IF done /\ ins.tag = UnlockTokens
                 THEN total_unlocked + ins.amount ELSE total_unlocked
            /\ unlock_count' =
                 IF done /\ ins.tag = UnlockTokens
                 THEN [unlock_count EXCEPT ![HashOf(ins.source_tx_hash)] = @ + 1]
                 ELSE unlock_count
            /\ n_processed' = n_processed + 1

\* The bridge program processes one instruction.
ProcessInstruction == Deliver({BridgeProgram}, TRUE)

Next == ProcessInstruction

Spec == Init /\ [][Next]_vars

\* The program deployed under any id processes one instruction; the
\* collaborators' answers are favourable.
ProcessInstructionAnyProgram == Deliver(ProgramIds, FALSE)

NextAnyProgram == ProcessInstructionAnyProgram

SpecAnyProgram == Init /\ [][NextAnyProgram]_vars

\* The decoder alone: any buffer, and one application of unpack to it.
InitDecode ==
    /\ instruction_data \in DecodeBuffers
    /\ instruction = NoInstruction
    /\ program_id = BridgeProgram
    /\ locked_balance = 0
    /\ processed_tx_hashes = {}
    /\ accounts = <<>>
    /\ verify_ok = TRUE
    /\ transfer_ok = TRUE
    /\ result = NoResult
    /\ total_locked = 0
    /\ total_unlocked = 0
    /\ unlock_count = [h \in Hashes |-> 0]
    /\ n_processed = 0

\* BridgeInstruction::unpack(instruction_data)? as process_instruction's
\* first statement: result is Ok for a decoded instruction and the error
\* otherwise.
Unpack ==
    /\ n_processed = 0
    /\ \E ins \in {unpack(instruction_data)} :
          /\ instruction' = ins
          /\ result' = IF ins.ok THEN Ok ELSE ins.err
    /\ n_processed' = 1
    /\ UNCHANGED <<program_id, locked_balance, processed_tx_hashes,
                   instruction_data, accounts, verify_ok, transfer_ok,
                   total_locked, total_unlocked, unlock_count>>

NextDecode == Unpack

SpecDecode == InitDecode /\ [][NextDecode]_vars

\* The instruction last delivered, decoded.
Instruction == instruction

Delivered == n_processed > 0

\* ----------------------------------------------------------------- claims

Ledger == <<locked_balance, processed_tx_hashes>>

IsLock == Delivered /\ Instruction.ok /\ Instruction.tag = LockTokens

IsUnlock == Delivered /\ Instruction.ok /\ Instruction.tag = UnlockTokens

\* The instruction last delivered decoded and came with three accounts.
HasAccounts == Delivered /\ Instruction.ok /\ Len(accounts) >= NumAccounts

\* ... and its account 0 signed.
Signed == HasAccounts /\ accounts[1].is_signer

\* ... and, for an unlock, account 0 is the bridge authority.
Authorized ==
    Signed /\ (Instruction.tag = UnlockTokens => accounts[1].key = BridgeAuthority)

\* C1: at most one Unlock carrying a given source_tx_hash ever succeeds: an
\* authorized Unlock whose hash already had a successful Unlock fails with
\* ReplayedTransaction and leaves the ledger unchanged.
C1_AtMostOneUnlockPerHash ==
    [][/\ (/\ IsUnlock' /\ Authorized'
           /\ unlock_count[HashOf(Instruction'.source_tx_hash)] >= 1)
          => (result' = "ReplayedTransaction" /\ UNCHANGED Ledger)
       /\ \A h \in Hashes : unlock_count'[h] <= 1]_vars

\* C2: an authorized Unlock of more than locked_balance fails with
\* InsufficientVaultBalance and changes nothing, so the total released by
\* successful unlocks never exceeds the total taken in by successful locks.
C2_ReleasedWithinLocked ==
    [][/\ (/\ IsUnlock' /\ Authorized'
           /\ Instruction'.amount > locked_balance)
          => (result' = "InsufficientVaultBalance" /\ UNCHANGED Ledger)
       /\ total_unlocked' <= total_locked']_vars

\* C3: an Unlock succeeds only when account 0 is the configured bridge
\* authority and has signed.
C3_UnlockOnlyByAuthority ==
    (IsUnlock /\ result = Ok) =>
        (accounts[1].key = BridgeAuthority /\ accounts[1].is_signer)

\* C4: an Unlock succeeds only after proof verification accepted its
\* (source_tx_hash, amount); an unverified one is rejected.
C4_UnlockOnlyIfVerified ==
    (IsUnlock /\ result = Ok) => verify_ok

\* C5: a Lock or Unlock with amount 0 that reaches the ledger fails with
\* InvalidAmount and leaves the ledger unchanged.
C5_ZeroAmountRejected ==
    [][(Authorized' /\ Instruction'.amount = 0) =>
           (result' = "InvalidAmount" /\ UNCHANGED Ledger)]_vars

\* C6: locked_balance is the sum of the successfully locked amounts minus
\* the sum of the successfully unlocked amounts.
C6_BalanceAccounting ==
    locked_balance = total_locked - total_unlocked

\* C7: an authorized, verified Unlock whose hash is not processed and whose
\* amount is within locked_balance succeeds, takes exactly amount off
\* locked_balance and records the hash.
C7_UnlockApplies ==
    [][(/\ IsUnlock' /\ Authorized' /\ verify_ok' /\ transfer_ok'
        /\ Instruction'.source_tx_hash \notin processed_tx_hashes
        /\ Instruction'.amount <= locked_balance)
       => (/\ result' = Ok
           /\ locked_balance' = locked_balance - Instruction'.amount
           /\ processed_tx_hashes' =
                processed_tx_hashes \cup {Instruction'.source_tx_hash})]_vars

\* C8: a Lock or Unlock that decodes and has three accounts, but whose
\* account 0 is not a signer, fails with the missing-signature error and
\* leaves the ledger unchanged.
C8_MissingSigner ==
    [][(HasAccounts' /\ ~accounts'[1].is_signer) =>
           (result' = MissingRequiredSignature /\ UNCHANGED Ledger)]_vars

\* C8 witness: an Unlock refused for its missing signature, delivered after a
\* Lock had succeeded.
C8_Witness ==
    /\ IsUnlock /\ HasAccounts /\ ~accounts[1].is_signer
    /\ result = MissingRequiredSignature
    /\ total_locked > 0

\* C9: every instruction yields exactly one outcome, and an instruction that
\* fails leaves the ledger as it was.
C9_AllOrNothing ==
    [][/\ result' \in Outcomes
       /\ (result' # Ok => UNCHANGED Ledger)]_vars

\* C9 witness: a Lock of a positive amount that failed after an earlier Lock
\* had succeeded.
C9_Witness ==
    /\ IsLock /\ Instruction.amount > 0
    /\ result \in Failures
    /\ total_locked > 0

\* C10: an Unlock that reaches the transfer (authorized, verified, hash never
\* unlocked, amount within what was locked) and whose transfer fails is
\* refused with TransferFailed and leaves the ledger unchanged.
C10_TransferFailureRefused ==
    [][(/\ IsUnlock' /\ Authorized' /\ verify_ok' /\ ~transfer_ok'
        /\ unlock_count[HashOf(Instruction'.source_tx_hash)] = 0
        /\ Instruction'.amount > 0
        /\ Instruction'.amount <= total_locked - total_unlocked)
       => (result' = "TransferFailed" /\ UNCHANGED Ledger)]_vars

\* C15: a decoded Lock or Unlock given fewer than three accounts fails with
\* the missing-account error (NotEnoughAccountKeys) and leaves the ledger
\* unchanged, whatever the signer flag of the accounts present.
C15_MissingAccount ==
    [][(Delivered' /\ Instruction'.ok /\ Len(accounts') < NumAccounts) =>
           (result' = NotEnoughAccountKeys /\ UNCHANGED Ledger)]_vars

\* C15 witness: an Unlock given two accounts, account 0 a signer, has failed
\* for its missing account.
C15_Witness ==
    /\ IsUnlock /\ Len(accounts) = 2 /\ accounts[1].is_signer
    /\ result = NotEnoughAccountKeys

\* C16: the failure reported is that of the earliest failing stage in the
\* order decode, account extraction, authorization: undecodable data gives
\* the decoding failure whatever the accounts, a decoded instruction with
\* fewer than three accounts gives the missing-account failure whatever the
\* signer flag, and an unsigned one with three accounts gives the
\* missing-signature failure whatever its amount, hash or the ledger.
C16_StageOrder ==
    Delivered =>
        /\ (~Instruction.ok => result = InvalidInstructionData)
        /\ (Instruction.ok /\ Len(accounts) < NumAccounts
              => result = NotEnoughAccountKeys)
        /\ (HasAccounts /\ ~accounts[1].is_signer
              => result = MissingRequiredSignature)

\* C16 witness: a decoded instruction with two accounts whose account 0 did
\* not sign has failed for its missing account, not its missing signature.
C16_Witness ==
    /\ Delivered /\ Instruction.ok
    /\ Len(accounts) = 2 /\ ~accounts[1].is_signer
    /\ result = NotEnoughAccountKeys

\* C17: no Lock with an empty target_chain is ever accepted.
C17_EmptyChainRefused ==
    (IsLock /\ Instruction.target_chain = <<>>) => result # Ok

\* ---------------------------------------------------------- decoder claims

\* unpack has been applied to instruction_data.
Decoded == Delivered

\* The tag byte of a non-empty buffer.
TagByte == Head(instruction_data)

\* The bytes after the tag byte.
Rest == Tail(instruction_data)

\* The error unpack gives a lock too short for its amount, and the error it
\* gives a lock whose target_chain is not text.
TruncatedError == unpack(<<0>>).err

MalformedError == unpack(LockBuffer(1, <<255>>)).err

LittleEndianValue(b) == b[1] + b[2] * 256 + b[3] * 65536 + b[4] * 16777216

HighBytesZero(b) == \A i \in 5..AmountLen : b[i] = 0

\* The 8 bytes after the tag byte, and everything after them.
AmountField == SubSeq(Rest, 1, AmountLen)

AfterAmount == SubSeq(Rest, AmountLen + 1, Len(Rest))

IsLockBuffer == Decoded /\ instruction_data # <<>> /\ TagByte = 0

IsUnlockBuffer == Decoded /\ instruction_data # <<>> /\ TagByte = 1

HashField == SubSeq(Rest, AmountLen + 1, UnlockLen)

\* C13: an unlock buffer with fewer than 40 bytes after the tag fails with
\* the decoder's truncation error (InvalidInstructionData in the source);
\* otherwise it decodes to UnlockTokens with amount the little-endian value
\* of the first 8 bytes and source_tx_hash the next 32 bytes, in order.
C13_UnlockDecoding ==
    IsUnlockBuffer =>
        IF Len(Rest) < UnlockLen
        THEN result = InvalidInstructionData
        ELSE /\ result = Ok
             /\ Instruction.tag = UnlockTokens
             /\ HighBytesZero(AmountField)
             /\ Instruction.amount = LittleEndianValue(AmountField)
             /\ Len(Instruction.source_tx_hash) = HashLen
             /\ \A i \in 1..HashLen :
                   Instruction.source_tx_hash[i] = Rest[AmountLen + i]

\* C13 witness: an unlock buffer holding the amount and only 31 hash bytes
\* has been refused.
C13_Witness ==
    /\ IsUnlockBuffer /\ Len(Rest) = UnlockLen - 1
    /\ result = InvalidInstructionData

\* The wire format: [0][amount, 8 bytes LE][target_chain] for a lock and
\* [1][amount, 8 bytes LE][source_tx_hash] for an unlock.
pack(ins) ==
    IF ins.tag = LockTokens
    THEN <<0>> \o LeBytes(ins.amount, AmountLen) \o ins.target_chain
    ELSE <<1>> \o LeBytes(ins.amount, AmountLen) \o ins.source_tx_hash

\* C14: for a buffer that decodes, encoding the decoded instruction gives
\* back the buffer's amount bytes and its target_chain or source_tx_hash
\* bytes exactly, and decoding that encoding gives the same instruction.
C14_RoundTrip ==
    (Decoded /\ result = Ok) =>
        LET again == pack(Instruction)
        IN  /\ SubSeq(again, 2, AmountLen + 1) = AmountField
            /\ SubSeq(again, AmountLen + 2, Len(again)) =
                  (IF TagByte = 0 THEN AfterAmount ELSE HashField)
            /\ Head(again) = TagByte
            /\ unpack(again) = Instruction

\* C14 witness: an unlock whose amount fills four bytes (16909060 is
\* 0x01020304) has decoded and encodes back to the buffer it came from.
C14_Witness ==
    /\ IsUnlockBuffer /\ result = Ok
    /\ AmountField = <<4, 3, 2, 1, 0, 0, 0, 0>>
    /\ Instruction.amount = 16909060
    /\ pack(Instruction) = instruction_data

\* C18: unpack is total: on every buffer, the empty one included, it returns
\* a decoded instruction or an error value and never panics on a slice bound
\* or an unwrap().
C18_UnpackTotal ==
    Decoded =>
        /\ result # Panic
        /\ result \in {Ok, InvalidInstructionData}
        /\ (result = Ok <=> Instruction.ok)

\* C18 witness: a lock buffer of the tag and exactly 8 bytes, where rest[8..]
\* is the empty slice at the end of the buffer, has decoded.
C18_Witness ==
    /\ IsLockBuffer /\ Len(Rest) = AmountLen
    /\ result = Ok

\* C19: unlock decoding ignores everything after the hash: an unlock buffer
\* of 41 bytes or more is accepted and decodes as its first 41 bytes do;
\* a decoded lock keeps every byte after the amount in target_chain.
C19_UnlockIgnoresTrailing ==
    /\ (IsUnlockBuffer /\ Len(instruction_data) >= UnlockLen + 1) =>
          /\ result = Ok
          /\ Instruction = unpack(SubSeq(instruction_data, 1, UnlockLen + 1))
    /\ (IsLockBuffer /\ result = Ok) =>
          Len(Instruction.target_chain) = Len(instruction_data) - (AmountLen + 1)

\* C19 witness: an unlock buffer longer than 41 bytes has decoded.
C19_Witness ==
    /\ IsUnlockBuffer /\ Len(instruction_data) > UnlockLen + 1
    /\ result = Ok

\* ------------------------------------------------------- outcome function

\* The outcome as a function of whether the data decodes, whether three
\* accounts are supplied and whether account 0 signed.
OutcomeOf(decodes, three, signer) ==
    IF ~decodes THEN InvalidInstructionData
    ELSE IF ~three THEN NotEnoughAccountKeys
    ELSE IF ~signer THEN MissingRequiredSignature
    ELSE Ok

Account0Signed == Len(accounts) >= 1 /\ accounts[1].is_signer

=============================================================================
